---- MODULE Spec2Model ----
(***************************************************************************)
(* Model of vulkano's runtime vertex interleaving                          *)
(* (vulkano/src/pipeline/graphics/vertex_input/runtime.rs):                *)
(* RuntimeVertexBuilder::{new, add, build} and RuntimeVertexIter::{next,   *)
(* len}.  One behaviour is one use of the builder: new(), a chain of add   *)
(* calls, build(), and then pulls on the returned iterator.  A panic ends  *)
(* the behaviour in pc = "aborted".                                        *)
(***************************************************************************)
EXTENDS Integers, Sequences, FiniteSets, TLC

\* ---------------------------------------------------------------- bounds
MaxMembers == 2      \* add calls that return normally in one chain
MaxVerts == 2        \* largest number of elements in a source array
MaxEndPulls == 2     \* pulls made after the iterator has returned None

\* ---------------------------------------------------------------- inputs
Names == {"position", "uvs"}
Formats == {"R8_UNORM", "R8G8_UNORM", "G8_B8_R8_3PLANE_420_UNORM"}
Types == {"()", "u8", "[u8; 2]"}
Seeds == {0, 128}

\* Option<T>
None == <<>>
Some(x) == <<x>>

\* Format::block_size(): the format table is outside this file; a format
\* either has a block size in bytes or has none.
block_size(format) ==
    CASE format = "R8_UNORM" -> Some(1)
      [] format = "R8G8_UNORM" -> Some(2)
      [] OTHER -> None

\* std::mem::size_of::<T>() of the element types used
size_of(T) ==
    CASE T = "()" -> 0
      [] T = "u8" -> 1
      [] T = "[u8; 2]" -> 2

\* The slices &[T] handed to add(): n elements of size_of(T) bytes each.
\* Every byte of one array differs from every other, and arrays of
\* different seeds share no byte, so a byte read from the wrong place shows.
Array(T, n, seed) ==
    [v \in 1..n |-> [k \in 1..size_of(T) |->
        (seed + (v - 1) * size_of(T) + (k - 1)) % 256]]
Arrays(T) == {Array(T, n, seed) : n \in 0..MaxVerts, seed \in Seeds}

\* `as u32` on a usize: it truncates from 2^32 on, which is beyond the
\* integers of the model checker; on every value below it changes nothing.
U32(x) == x

\* BufferContents::as_bytes for [T]: the elements' bytes, back to back.
RECURSIVE as_bytes(_)
as_bytes(data) ==
    IF data = <<>> THEN <<>> ELSE Head(data) \o as_bytes(Tail(data))

\* ----------------------------------------------------------------- state
VARIABLES
    pc,        \* "building" | "iterating" | "aborted"
    members,   \* RuntimeVertexBuilder.members: <<name, VertexMemberInfo>>
    slices,    \* RuntimeVertexBuilder.slices: <<bytes, field_size>>
    offset,    \* RuntimeVertexBuilder.offset
    iter,      \* the RuntimeVertexIter returned by build(), or NoIter
    info,      \* the VertexBufferInfo returned by build(), or NoInfo
    out,       \* bytes the iterator has returned so far, in order
    last,      \* result of the latest pull: "none" | "some" | "end"
    endPulls,  \* number of pulls that returned None
    panic,     \* "none" or the panic that aborted the program
    args,      \* the add calls that returned normally, in order
    call       \* the latest call made on the builder

vars == <<pc, members, slices, offset, iter, info, out, last, endPulls,
          panic, args, call>>

NoIter == [none |-> TRUE]
NoInfo == [none |-> TRUE]
NoCall == [op |-> "new"]

\* RuntimeVertexBuilder::new()
Init ==
    /\ pc = "building"
    /\ members = <<>>
    /\ slices = <<>>
    /\ offset = 0
    /\ iter = NoIter
    /\ info = NoInfo
    /\ out = <<>>
    /\ last = "none"
    /\ endPulls = 0
    /\ panic = "none"
    /\ args = <<>>
    /\ call = NoCall

Abort(msg) ==
    /\ pc' = "aborted"
    /\ panic' = msg

\* ------------------------------------------------------------------- add
\* num_elements of add()
num_elements(field_size, format_size) == field_size \div format_size

\* remainder, with `/` written for `%`
remainder_Div(field_size, format_size) == field_size \div format_size
\* remainder of add()
remainder(field_size, format_size) == field_size % format_size

\* The member pushed by add()
NewMember(name, format, field_size, format_size, off) ==
    <<name, [offset |-> off,
             format |-> format,
             num_elements |-> U32(num_elements(field_size, format_size))]>>

\* The running offset advanced by the format's size, not the element's
NextOffset_FormatSize(off, field_size, format_size) == off + format_size

\* The running offset after add()
NextOffset(off, field_size, format_size) == off + field_size

\* RuntimeVertexBuilder::add::<T>(attribute, data)
add(name, format, T, data) ==
    /\ pc = "building"
    /\ Len(members) < MaxMembers
    /\ call' = [op |-> "add", name |-> name, format |-> format,
                T |-> T, data |-> data]
    /\ LET field_size == size_of(T)
           format_size == block_size(format)[1]
       IN  IF block_size(format) = None
           THEN /\ Abort("no block size for format")
                /\ UNCHANGED <<members, slices, offset, args>>
           ELSE IF remainder(field_size, format_size) # 0
           THEN /\ Abort("does not fit provided format")
                /\ UNCHANGED <<members, slices, offset, args>>
           ELSE /\ members' = Append(members,
                        NewMember(name, format, field_size, format_size, offset))
                /\ offset' = NextOffset(offset, field_size, format_size)
                /\ slices' = Append(slices, <<as_bytes(data), field_size>>)
                /\ args' = Append(args, call')
                /\ UNCHANGED <<pc, panic>>
    /\ UNCHANGED <<iter, info, out, last, endPulls>>

Add ==
    \E name \in Names, format \in Formats, T \in Types :
        \E data \in Arrays(T) : add(name, format, T, data)

\* ----------------------------------------------------------------- build
RECURSIVE SeqMin(_)
SeqMin(s) ==
    IF Len(s) = 1 THEN s[1]
    ELSE LET m == SeqMin(Tail(s)) IN IF s[1] <= m THEN s[1] ELSE m

RECURSIVE SeqSum(_)
SeqSum(s) == IF s = <<>> THEN 0 ELSE s[1] + SeqSum(Tail(s))

\* num_vertices taken from the first attribute alone, without the min
num_vertices_First(sl) == Len(sl[1][1]) \div sl[1][2]

\* slices.iter().map(|(data, size)| data.len() / size).min().unwrap()
\* (evaluated only when slices is not empty and no size is 0)
num_vertices(sl) ==
    SeqMin([i \in 1..Len(sl) |-> Len(sl[i][1]) \div sl[i][2]])

\* data_length without the sum over the members
data_length_FirstOnly(sl, nv) == sl[1][2] * nv

\* slices.iter().map(|(_data, size)| size * num_vertices).sum()
data_length(sl, nv) ==
    SeqSum([i \in 1..Len(sl) |-> sl[i][2] * nv])

\* member_min.zip(member_max).collect()
member_ranges(mem, off) ==
    [i \in 1..Len(mem) |->
        <<mem[i][2].offset,
          IF i < Len(mem) THEN mem[i + 1][2].offset ELSE off>>]

\* .collect() of (name, VertexMemberInfo) pairs into VertexBufferInfo.members,
\* a map keyed by name: a later pair replaces an earlier one of the same name.
CollectMembers(mem) ==
    [n \in {mem[i][1] : i \in 1..Len(mem)} |->
        LET i == CHOOSE j \in 1..Len(mem) :
                    /\ mem[j][1] = n
                    /\ \A k \in (j + 1)..Len(mem) : mem[k][1] # n
        IN  mem[i][2]]

\* The VertexBufferInfo of build()
BuildInfo(mem, off) ==
    [members |-> CollectMembers(mem),
     stride |-> U32(off),
     input_rate |-> "Vertex"]

\* The RuntimeVertexIter of build()
BuildIter(mem, sl, off) ==
    [member_ranges |-> member_ranges(mem, off),
     member_slices |-> sl,
     stride |-> U32(off),
     data_length |-> data_length(sl, num_vertices(sl)),
     data_index |-> 0,
     member_index |-> 0]

\* RuntimeVertexBuilder::build()
build ==
    /\ pc = "building"
    /\ call' = [op |-> "build"]
    /\ IF \E i \in 1..Len(slices) : slices[i][2] = 0
       THEN /\ Abort("attempt to divide by zero")
            /\ UNCHANGED <<iter, info>>
       ELSE IF slices = <<>>
       THEN /\ Abort("called Option::unwrap() on a None value")
            /\ UNCHANGED <<iter, info>>
       ELSE /\ info' = BuildInfo(members, offset)
            /\ iter' = BuildIter(members, slices, offset)
            /\ pc' = "iterating"
            /\ UNCHANGED panic
    /\ UNCHANGED <<members, slices, offset, out, last, endPulls, args>>

\* ------------------------------------------------------------------ next
\* The end test, with `<` written for `==`
IsExhausted_Less(it) == it.data_length < it.data_index

\* self.data_length == self.data_index
IsExhausted(it) == it.data_length = it.data_index

\* The adjustment without the wrap to 0 past the last member
StepMemberIndex_NoWrap(ranges, mi, data_offset) ==
    IF ranges[mi + 1][2] <= data_offset \/ ranges[mi + 1][1] > data_offset
    THEN mi + 1
    ELSE mi

\* The adjustment with the range's end taken as part of the range
StepMemberIndex_EndInside(ranges, mi, data_offset) ==
    IF ranges[mi + 1][2] < data_offset \/ ranges[mi + 1][1] > data_offset
    THEN IF mi + 1 = Len(ranges) THEN 0 ELSE mi + 1
    ELSE mi

\* The cached member index after the adjustment at the top of next()
StepMemberIndex(ranges, mi, data_offset) ==
    IF ranges[mi + 1][2] <= data_offset \/ ranges[mi + 1][1] > data_offset
    THEN IF mi + 1 = Len(ranges) THEN 0 ELSE mi + 1
    ELSE mi

\* The read index without the member's start taken off data_offset
ReadIndex_NoStart(vertex_index, field_size, data_offset, start) ==
    vertex_index * field_size + data_offset

\* vertex_index * field_size + member_offset
ReadIndex(vertex_index, field_size, data_offset, start) ==
    vertex_index * field_size + (data_offset - start)

Panicked(msg) == [kind |-> "panic", msg |-> msg]
Produced(byte, mi) == [kind |-> "some", byte |-> byte, member_index |-> mi]

\* What one pull of a sequence that is not exhausted can do.  A usize
\* subtraction below zero panics where overflow checks are compiled in and
\* wraps where they are not; a wrapped index is in bounds only when the
\* whole sum is back at or above zero.
Pull(it) ==
    IF it.stride = 0 THEN {Panicked("attempt to divide by zero")}
    ELSE IF it.member_index >= Len(it.member_ranges)
    THEN {Panicked("index out of bounds")}
    ELSE
    LET vertex_index == it.data_index \div it.stride
        data_offset == it.data_index % it.stride
        mi == StepMemberIndex(it.member_ranges, it.member_index, data_offset)
        range == it.member_ranges[mi + 1]
        field_size == range[2] - range[1]
        idx == ReadIndex(vertex_index, field_size, data_offset, range[1])
        bytes == it.member_slices[mi + 1][1]
        read == IF idx >= 0 /\ idx < Len(bytes)
                THEN Produced(bytes[idx + 1], mi)
                ELSE Panicked("index out of bounds")
    IN  IF mi >= Len(it.member_slices)
        THEN {Panicked("index out of bounds")}
        ELSE IF range[2] < range[1] \/ data_offset < range[1]
        THEN {Panicked("attempt to subtract with overflow"), read}
        ELSE {read}

\* The fields written with the cursor moved on twice
Advance_Twice(it, mi) ==
    [it EXCEPT !.member_index = mi, !.data_index = @ + 2]

\* The fields next() writes on a pull that produces a byte:
\* self.member_index (the adjusted index) and self.data_index += 1
Advance(it, mi) ==
    [it EXCEPT !.member_index = mi, !.data_index = @ + 1]

\* RuntimeVertexIter::next()
next ==
    /\ pc = "iterating"
    /\ IsExhausted(iter) => endPulls < MaxEndPulls
    /\ call' = [op |-> "next"]
    /\ IF IsExhausted(iter)
       THEN /\ last' = "end"
            /\ endPulls' = endPulls + 1
            /\ UNCHANGED <<pc, panic, iter, out>>
       ELSE \E o \in Pull(iter) :
                IF o.kind = "panic"
                THEN /\ Abort(o.msg)
                     /\ UNCHANGED <<iter, out, last, endPulls>>
                ELSE /\ iter' = Advance(iter, o.member_index)
                     /\ out' = Append(out, o.byte)
                     /\ last' = "some"
                     /\ UNCHANGED <<pc, panic, endPulls>>
    /\ UNCHANGED <<members, slices, offset, info, args>>

\* len() without the cursor taken off
len_Total(it) == it.data_length

\* ExactSizeIterator::len()
len(it) == it.data_length - it.data_index

Next == Add \/ build \/ next

Spec == Init /\ [][Next]_vars

\* =================================================================== claims
\* What the add calls that returned normally handed over, read off `args`.
SizeOfArg(i) == size_of(args[i].T)
SumSizes(n) == SeqSum([i \in 1..n |-> SizeOfArg(i)])
\* source_bytes.len() / field_byte_size of the i-th attribute (size not 0)
VertexCount(i) == (Len(args[i].data) * SizeOfArg(i)) \div SizeOfArg(i)
MinCount == SeqMin([i \in 1..Len(args) |-> VertexCount(i)])
TotalLength == SumSizes(Len(args)) * MinCount
Built == iter # NoIter
Drained == pc = "iterating" /\ last = "end"

RECURSIVE ConcatFields(_, _)
ConcatFields(v, i) ==
    IF i > Len(args) THEN <<>> ELSE args[i].data[v] \o ConcatFields(v, i + 1)

RECURSIVE ConcatRecords(_)
ConcatRecords(v) ==
    IF v > MinCount THEN <<>> ELSE ConcatFields(v, 1) \o ConcatRecords(v + 1)

\* The attribute whose range [offset_i, offset_i + field_size_i) holds r
OwnerOf(r) ==
    CHOOSE i \in 1..Len(args) : SumSizes(i - 1) <= r /\ r < SumSizes(i)

\* C1: the bytes drained are, vertex by vertex, the registered attributes'
\* elements back to back in registration order: the byte at position p is
\* byte (p % stride - offset_i) of element p / stride of the attribute i
\* whose range holds p % stride, and a full drain yields every record.
C1_OrderPreserved ==
    Built =>
        LET stride == SumSizes(Len(args))
            records == ConcatRecords(1)
        IN  /\ Len(out) <= Len(records)
            /\ out = SubSeq(records, 1, Len(out))
            /\ Drained =>
                  /\ out = records
                  /\ \A p \in 0..(Len(out) - 1) :
                        LET i == OwnerOf(p % stride)
                        IN  out[p + 1] =
                              args[i].data[(p \div stride) + 1]
                                          [(p % stride) - SumSizes(i - 1) + 1]

C1_Witness ==
    /\ Drained
    /\ Len(args) = 2
    /\ SizeOfArg(1) = 2 /\ SizeOfArg(2) = 1
    /\ args[1].data # <<>> /\ args[2].data # <<>>
    /\ args[1].data[1][1] # args[2].data[1][1]
    /\ Len(out) = 6

\* C2: slicing [offset, offset + size) out of every record of the drained
\* stream, with the descriptor's offsets, element counts and stride alone,
\* gives back every element of every registered attribute's source array.
C2_RoundTrip ==
    Drained =>
        \A i \in 1..Len(args) :
            /\ args[i].name \in DOMAIN info.members
            /\ LET m == info.members[args[i].name]
                   size == m.num_elements * block_size(m.format)[1]
               IN  \A v \in 1..Len(args[i].data) :
                     /\ Len(out) >= v * info.stride
                     /\ SubSeq(out, (v - 1) * info.stride + m.offset + 1,
                                    (v - 1) * info.stride + m.offset + size)
                          = args[i].data[v]

\* C3: a drained sequence has produced stride * vertex_count bytes, stride
\* the descriptor's and vertex_count the least source_bytes.len() /
\* field_byte_size of the registered attributes; never more on the way.
C3_LengthIsStrideTimesCount ==
    Built =>
        /\ Len(out) <= info.stride * MinCount
        /\ Drained => Len(out) = info.stride * MinCount

C3_Witness ==
    /\ Drained
    /\ Len(args) = 2
    /\ VertexCount(1) = 2 /\ VertexCount(2) = 1
    /\ Len(out) = info.stride
    /\ info.stride = 3

\* C4: the descriptor's stride is the sum of the field byte sizes of the add
\* calls, and the ranges [offset, offset + size) of the members of its
\* name-to-member mapping partition [0, stride).
C4_RangesPartitionStride ==
    info # NoInfo =>
        /\ info.stride = SumSizes(Len(args))
        /\ \A n \in DOMAIN info.members :
              LET m == info.members[n]
              IN  m.offset + m.num_elements * block_size(m.format)[1]
                    <= info.stride
        /\ \A b \in 0..(info.stride - 1) :
              Cardinality({n \in DOMAIN info.members :
                  LET m == info.members[n]
                  IN  /\ m.offset <= b
                      /\ b < m.offset
                             + m.num_elements * block_size(m.format)[1]}) = 1

\* C5: build() on attribute arrays of different vertex counts reports the
\* mismatch and hands out no sequence, so no byte is ever emitted.
CountsDiffer ==
    \E i, j \in 1..Len(args) : VertexCount(i) # VertexCount(j)

C5_MismatchReported ==
    (call.op \in {"build", "next"} /\ pc = "iterating" /\ CountsDiffer) =>
        (iter = NoIter /\ out = <<>>)

\* C6: an add() whose element size is not a whole multiple of the format's
\* block size aborts, registering no member and yielding no builder,
\* descriptor or sequence; one whose size is a whole multiple returns with
\* the member registered.  Nothing happens after an abort.
Fits(c) == size_of(c.T) % block_size(c.format)[1] = 0

C6_AddStep ==
    /\ pc = "aborted" => UNCHANGED vars
    /\ (call'.op = "add" /\ block_size(call'.format) # None) =>
          IF Fits(call')
          THEN /\ pc' = "building"
               /\ panic' = "none"
               /\ Len(members') = Len(members) + 1
               /\ members'[Len(members')][1] = call'.name
          ELSE /\ pc' = "aborted"
               /\ panic' = "does not fit provided format"
               /\ members' = members
               /\ slices' = slices
               /\ iter' = NoIter
               /\ info' = NoInfo

C6_MisfitAborts == [][C6_AddStep]_vars

C6_Witness ==
    /\ pc = "aborted"
    /\ panic = "does not fit provided format"
    /\ call.op = "add"
    /\ Len(members) = 1
    /\ iter = NoIter

\* C7: once total_length bytes have been produced, every further pull
\* signals the end, produces no byte and leaves the sequence as it was.
C7_PullWhenDrained ==
    (Built /\ pc = "iterating" /\ Len(out) = TotalLength) =>
        /\ last' = "end"
        /\ out' = out
        /\ iter' = iter
        /\ pc' = "iterating"

C7_IdempotentExhaustion == [][C7_PullWhenDrained]_vars

C7_Witness ==
    /\ Drained
    /\ endPulls = MaxEndPulls
    /\ Len(out) = 4

\* C8: len() is total_length - cursor and the number of bytes still to
\* come: stride * vertex_count at the start, one less after each pull that
\* produces a byte, and 0 exactly when the next pull signals the end.
C8_LenState ==
    (Built /\ pc = "iterating") =>
        /\ len(iter) = info.stride * MinCount - Len(out)
        /\ len(iter) = Len(ConcatRecords(1)) - Len(out)
        /\ len(iter) >= 0
        /\ last = "end" => len(iter) = 0

C8_LenStep ==
    (Built /\ pc = "iterating") =>
        IF len(iter) = 0
        THEN last' = "end" /\ len(iter') = 0 /\ out' = out
        ELSE /\ last' = "some"
             /\ Len(out') = Len(out) + 1
             /\ len(iter') = len(iter) - 1

C8_RemainingLength == [](C8_LenState) /\ [][C8_LenStep]_vars

C8_Witness ==
    /\ Built /\ pc = "iterating"
    /\ last = "some"
    /\ len(iter) = 3
    /\ Len(out) = 3

\* C9: construction aborts only inside add(), with one of its two named
\* failures; build() returns a descriptor and a sequence for every builder
\* that new() and add calls that returned can make.
C9_OnlyAddAborts ==
    /\ pc = "aborted" =>
          /\ call.op = "add"
          /\ panic \in {"no block size for format",
                         "does not fit provided format"}
    /\ call.op = "build" => (pc = "iterating" /\ Built /\ info # NoInfo)

\* C10: in the builder, for as long as there is one (build() and a panic
\* consume it), offset is the sum of the field byte sizes of the add calls
\* so far, member i sits at the sum of the sizes before it with element
\* count field size / format size, and members and slices hold the calls'
\* attributes and bytes in registration order, as many of each.
C10_BuilderInvariant ==
    pc = "building" =>
    /\ offset = SumSizes(Len(args))
    /\ Len(members) = Len(args)
    /\ Len(slices) = Len(args)
    /\ \A i \in 1..Len(args) :
          /\ members[i][1] = args[i].name
          /\ members[i][2].format = args[i].format
          /\ members[i][2].offset = SumSizes(i - 1)
          /\ members[i][2].num_elements
                = SizeOfArg(i) \div block_size(args[i].format)[1]
          /\ slices[i][2] = SizeOfArg(i)
          /\ Len(slices[i][1]) = Len(args[i].data) * SizeOfArg(i)
          /\ \A v \in 1..Len(args[i].data) : \A k \in 1..SizeOfArg(i) :
                slices[i][1][(v - 1) * SizeOfArg(i) + k] = args[i].data[v][k]

C10_Witness ==
    /\ pc = "building"
    /\ Len(members) = 2
    /\ members[2][2].offset = 2
    /\ members[1][2].num_elements = 2
    /\ offset = 3
    /\ Len(slices[2][1]) = 2

\* C11: the cached member index gives, at every pull, the member and the
\* byte that a search of member_ranges for the range holding
\* cursor % stride gives: the byte at position p is a function of p, the
\* ranges and the sources alone.
DirectSearch(it, p) ==
    CHOOSE j \in 0..(Len(it.member_ranges) - 1) :
        /\ it.member_ranges[j + 1][1] <= p % it.stride
        /\ p % it.stride < it.member_ranges[j + 1][2]

DirectByte(it, p) ==
    LET j == DirectSearch(it, p)
        start == it.member_ranges[j + 1][1]
        field_size == it.member_ranges[j + 1][2] - start
    IN  it.member_slices[j + 1][1]
            [(p \div it.stride) * field_size + ((p % it.stride) - start) + 1]

C11_CacheAgreesWithSearch ==
    (Built /\ pc = "iterating") =>
        /\ \A p \in 0..(Len(out) - 1) : out[p + 1] = DirectByte(iter, p)
        /\ Len(out) > 0 =>
              iter.member_index = DirectSearch(iter, Len(out) - 1)
        /\ ~IsExhausted(iter) =>
              Pull(iter) = {Produced(DirectByte(iter, iter.data_index),
                                     DirectSearch(iter, iter.data_index))}

C11_Witness ==
    /\ Built /\ pc = "iterating"
    /\ Len(iter.member_ranges) = 2
    /\ iter.stride = 3
    /\ Len(out) = 4
    /\ iter.member_index = 0
    /\ out[4] # out[1]

\* C12 as claimed: a pull that produces a byte changes the cursor alone, by
\* one, and every other field of the sequence, last_member_index included,
\* stays; no byte is produced once cursor = total_length.
C12_OnlyCursorStep ==
    (Built /\ pc = "iterating") =>
        /\ out' # out => iter' = [iter EXCEPT !.data_index = @ + 1]
        /\ iter.data_index = iter.data_length => out' = out

C12_OnlyCursorChanges == [][C12_OnlyCursorStep]_vars

\* C12 as amended: a pull that produces a byte moves the cursor on by one
\* and leaves member_ranges, the source views, stride and total_length as
\* they were; last_member_index stays or moves one step on, wrapping to 0;
\* no byte is produced once cursor = total_length.
C12_CursorAndCacheStep ==
    (Built /\ pc = "iterating") =>
        /\ out' # out =>
              /\ Len(out') = Len(out) + 1
              /\ iter'.data_index = iter.data_index + 1
              /\ iter'.member_ranges = iter.member_ranges
              /\ iter'.member_slices = iter.member_slices
              /\ iter'.stride = iter.stride
              /\ iter'.data_length = iter.data_length
              /\ iter'.member_index \in
                    {iter.member_index,
                     (iter.member_index + 1) % Len(iter.member_ranges)}
        /\ out' = out => iter' = iter
        /\ iter.data_index = iter.data_length => out' = out

C12_CursorAndCacheChange == [][C12_CursorAndCacheStep]_vars

C12_Witness ==
    /\ Built /\ pc = "iterating"
    /\ last = "some"
    /\ iter.member_index = 1
    /\ iter.data_index = 2
    /\ Len(out) = 2

\* C13: at every pull the cached member index, after its adjustment of at
\* most one step (on by one, to 0 past the last member), names the range
\* that holds cursor % stride; inside a record it never goes down, and it
\* goes back to 0 only on a pull with cursor % stride = 0.
C13_CacheStepping ==
    (Built /\ pc = "iterating") =>
        /\ iter.member_index \in 0..(Len(iter.member_ranges) - 1)
        /\ Len(out) > 0 =>
              LET d == (iter.data_index - 1) % iter.stride
                  r == iter.member_ranges[iter.member_index + 1]
              IN  r[1] <= d /\ d < r[2]
        /\ ~IsExhausted(iter) =>
              LET d == iter.data_index % iter.stride
                  n == Len(iter.member_ranges)
                  mi == StepMemberIndex(iter.member_ranges,
                                        iter.member_index, d)
              IN  /\ mi \in {iter.member_index, (iter.member_index + 1) % n}
                  /\ iter.member_ranges[mi + 1][1] <= d
                  /\ d < iter.member_ranges[mi + 1][2]
                  /\ d # 0 => mi >= iter.member_index
                  /\ mi < iter.member_index => (mi = 0 /\ d = 0)

C13_Witness ==
    /\ Built /\ pc = "iterating"
    /\ ~IsExhausted(iter)
    /\ Len(iter.member_ranges) = 2
    /\ iter.member_index = 1
    /\ iter.data_index = iter.stride
    /\ StepMemberIndex(iter.member_ranges, iter.member_index, 0) = 0

\* C14: in every pull of every sequence build() returns, the member index
\* is an index of member_ranges and vertex_index * field_size +
\* (byte_in_record - range_start) is below the length of that member's
\* bytes, so no pull aborts, whatever the attributes' vertex counts.
C14_NoOutOfBounds ==
    Built =>
        /\ pc = "iterating"
        /\ panic = "none"
        /\ ~IsExhausted(iter) =>
              /\ iter.stride > 0
              /\ iter.member_index < Len(iter.member_ranges)
              /\ LET vertex_index == iter.data_index \div iter.stride
                     d == iter.data_index % iter.stride
                     mi == StepMemberIndex(iter.member_ranges,
                                           iter.member_index, d)
                 IN  /\ mi < Len(iter.member_ranges)
                     /\ mi < Len(iter.member_slices)
                     /\ LET r == iter.member_ranges[mi + 1]
                        IN  /\ r[1] <= r[2]
                            /\ r[1] <= d
                            /\ vertex_index * (r[2] - r[1]) + (d - r[1])
                                  < Len(iter.member_slices[mi + 1][1])
              /\ \A o \in Pull(iter) : o.kind = "some"

C14_Witness ==
    /\ Built /\ pc = "iterating"
    /\ Len(args) = 2
    /\ VertexCount(1) = 1 /\ VertexCount(2) = 2
    /\ iter.data_index = iter.data_length - 1
    /\ iter.data_index = 2
    /\ last = "some"

\* C15: the descriptor's name-to-member mapping has one entry per add
\* call, with the offset, format and element count of that call, so as
\* many members as add calls, also when two calls used the same name.
C15_OneEntryPerAdd ==
    info # NoInfo =>
        /\ Cardinality(DOMAIN info.members) = Len(args)
        /\ \A i \in 1..Len(args) :
              /\ args[i].name \in DOMAIN info.members
              /\ info.members[args[i].name] = members[i][2]

====
